---- MODULE Spec2Model ----
(***************************************************************************)
(* A model of the peruse parser-combinator library.                        *)
(*                                                                         *)
(* A parser is a tree of structs (LiteralParser, ChainedParser, ...); it   *)
(* is modelled as a record whose field k names the struct.  An input       *)
(* slice &[T] is a pointer into a buffer plus a length; since every slice  *)
(* the library produces runs to the end of its buffer (&data[1..]), a      *)
(* slice is modelled as the buffer and the offset of its first element.    *)
(* parse is a pure function of the parser and the slice; it is modelled    *)
(* by the operator Parse, which computes what the code computes and also   *)
(* records, in the field log of its result, the calls that were made       *)
(* (parse calls, applications of matcher and mapper closures, factory      *)
(* invocations).  A call that never returns (an endless loop or an         *)
(* endless recursion) has the result NeverReturns.                         *)
(***************************************************************************)
EXTENDS Integers, Sequences, FiniteSets, TLC

VARIABLES parser, data, result, history

vars == <<parser, data, result, history>>

(***************************************************************************)
(* Bounds of the model.                                                    *)
(***************************************************************************)
MaxLen == 3
MaxToken == 2
MaxMinReps == 3
MaxCalls == 3
MaxReuseLen == 2

Tokens == 0..MaxToken

(***************************************************************************)
(* Slices.                                                                 *)
(***************************************************************************)
Slice(buf, off) == [buf |-> buf, off |-> off]

SliceLen(d) == Len(d.buf) - d.off

SliceAt(d, i) == d.buf[d.off + i + 1]

SliceFrom(d, n) == [buf |-> d.buf, off |-> d.off + n]

SliceElems(d) == SubSeq(d.buf, d.off + 1, Len(d.buf))

(***************************************************************************)
(* ParseResult<I,O> = Result<(O, I), String>, with the log of the calls    *)
(* made while it was computed.                                             *)
(***************************************************************************)
Ok(o, rest, log) == [tag |-> "Ok", out |-> o, rest |-> rest, log |-> log]

Err(e, log) == [tag |-> "Err", err |-> e, log |-> log]

NeverReturns == [tag |-> "NeverReturns"]

NoCall == [tag |-> "NoCall"]

Some(v) == [some |-> TRUE, val |-> v]

None == [some |-> FALSE]

(***************************************************************************)
(* The error messages of the library.                                      *)
(***************************************************************************)
EndOfInput == "ran out of data"

Mismatch == "Literal mismatch"

MatchFailed == "Match failed"

AllOptionsFailed == "All options failed"

NotEnoughReps(required, got) ==
  "Not enough reps: required " \o ToString(required) \o ", got " \o ToString(got)

ErrorOnRep(err) == "Error on rep: " \o err

(***************************************************************************)
(* Events of the log.                                                      *)
(***************************************************************************)
CallEv(p, d) == [ev |-> "parse", p |-> p, off |-> d.off]

MatcherEv(f, t) == [ev |-> "matcher", f |-> f, t |-> t]

MapperEv(g, o) == [ev |-> "mapper", g |-> g, o |-> o]

FactoryEv(f, d) == [ev |-> "factory", fn |-> f, off |-> d.off]

(***************************************************************************)
(* Constructors.                                                           *)
(***************************************************************************)
lit(l) == [k |-> "LiteralParser", literal |-> l]

matcher(f) == [k |-> "MatchParser", matcher |-> f]

then(a, p) == [k |-> "ChainedParser", first |-> a, second |-> p]

map(a, f) == [k |-> "MapParser", parser |-> a, mapper |-> f]

(* then_r tossing the value of the other parser.                           *)
then_r_KeepLeft(a, p) == map(then(a, p), "fst")

then_r(a, p) == map(then(a, p), "snd")

then_l(a, p) == map(then(a, p), "fst")

repeat(a) == [k |-> "RepeatParser", parser |-> a]

or(a, p) == [k |-> "OrParser", first |-> a, second |-> p]

opt(t) == [k |-> "OptionParser", parser |-> t]

recursive(f) == [k |-> "RecursiveParser", parser |-> [fn |-> f]]

repsep(rep, sep) == [k |-> "RepSepParser", rep |-> rep, sep |-> sep, min_reps |-> 1]

repsep_min(rep, sep, min) == [k |-> "RepSepParser", rep |-> rep, sep |-> sep, min_reps |-> min]

one_of(t) == [k |-> "OneOfParser", options |-> t]

boxed(p) == [k |-> "BoxedParser", parser |-> p]

(* skip without the noise after the essential parser.                      *)
skip_NoTrailing(essential, skipped) == then_r(repeat(skipped), essential)

skip(essential, skipped) ==
  then_l(then_r(repeat(skipped), essential), repeat(skipped))

(***************************************************************************)
(* The closures handed to matcher and map.  small is the closure of        *)
(* test_match with its threshold lowered into the tokens of the model and  *)
(* pred is a closure that changes the tokens it accepts; zero and succ are *)
(* the closures of test_recursive, snd and fst those of then_r and then_l, *)
(* sum that of test_map and len that of the readme example.                *)
(***************************************************************************)
MatchFn(f, t) ==
  CASE f = "small" -> IF t < 2 THEN Some(t) ELSE None
    [] f = "pred"  -> IF t > 0 THEN Some(t - 1) ELSE None

MapFn(g, o) ==
  CASE g = "zero" -> 0
    [] g = "succ" -> o + 1
    [] g = "snd"  -> o[2]
    [] g = "fst"  -> o[1]
    [] g = "sum"  -> o[1] + o[2]
    [] g = "len"  -> Len(o)

(***************************************************************************)
(* The factories handed to recursive: recurse is the grammar of            *)
(* test_recursive, which counts the zeros in front of a one; leftrec is a  *)
(* grammar whose first branch starts with a reference to itself; optrec is *)
(* recurse with the zero in front of the reference made optional.          *)
(***************************************************************************)
FactoryNames == {"recurse", "leftrec", "optrec"}

Factory(f) ==
  CASE f = "recurse" ->
         or(map(lit(1), "zero"),
            map(then_r(lit(0), recursive("recurse")), "succ"))
    [] f = "leftrec" ->
         or(then_r(recursive("leftrec"), lit(0)), lit(1))
    [] f = "optrec" ->
         or(map(lit(1), "zero"),
            map(then_r(opt(lit(0)), recursive("optrec")), "succ"))

(***************************************************************************)
(* parse.  The third argument is the set of the recursive references that  *)
(* are being evaluated, each with the offset it was reached at: parse is   *)
(* a pure function, so a reference reached again at the same offset while  *)
(* it is being evaluated recurses for ever.                                *)
(***************************************************************************)
RECURSIVE Parse(_, _, _)
RECURSIVE RepeatLoop(_, _, _, _, _)
RECURSIVE RepSepLoop(_, _, _, _, _)
RECURSIVE OneOfLoop(_, _, _, _, _)

(* LiteralParser::parse returning the whole slice as the remainder.        *)
LiteralParser_parse_NoAdvance(p, d) ==
  IF SliceLen(d) < 1
    THEN Err(EndOfInput, <<>>)
    ELSE IF SliceAt(d, 0) = p.literal
           THEN Ok(SliceAt(d, 0), SliceFrom(d, 0), <<>>)
           ELSE Err(Mismatch, <<>>)

LiteralParser_parse(p, d) ==
  IF SliceLen(d) < 1
    THEN Err(EndOfInput, <<>>)
    ELSE IF SliceAt(d, 0) = p.literal
           THEN Ok(SliceAt(d, 0), SliceFrom(d, 1), <<>>)
           ELSE Err(Mismatch, <<>>)

(* MatchParser::parse returning the token instead of what the closure made *)
(* of it.                                                                  *)
MatchParser_parse_Untransformed(p, d) ==
  IF SliceLen(d) < 1
    THEN Err(EndOfInput, <<>>)
    ELSE LET m == MatchFn(p.matcher, SliceAt(d, 0))
             log == <<MatcherEv(p.matcher, SliceAt(d, 0))>>
         IN  IF m.some
               THEN Ok(SliceAt(d, 0), SliceFrom(d, 1), log)
               ELSE Err(MatchFailed, log)

MatchParser_parse(p, d) ==
  IF SliceLen(d) < 1
    THEN Err(EndOfInput, <<>>)
    ELSE LET m == MatchFn(p.matcher, SliceAt(d, 0))
             log == <<MatcherEv(p.matcher, SliceAt(d, 0))>>
         IN  IF m.some
               THEN Ok(m.val, SliceFrom(d, 1), log)
               ELSE Err(MatchFailed, log)

(* ChainedParser::parse with second given the input of first instead of    *)
(* the remainder of first.                                                 *)
ChainedParser_parse_SameInput(p, d, act) ==
  LET ra == Parse(p.first, d, act)
  IN  CASE ra.tag = "NeverReturns" -> NeverReturns
        [] ra.tag = "Err" -> Err(ra.err, ra.log)
        [] ra.tag = "Ok" ->
             LET rb == Parse(p.second, d, act)
             IN  CASE rb.tag = "NeverReturns" -> NeverReturns
                   [] rb.tag = "Err" -> Err(rb.err, ra.log \o rb.log)
                   [] rb.tag = "Ok" ->
                        Ok(<<ra.out, rb.out>>, rb.rest, ra.log \o rb.log)

(* ChainedParser::parse returning the remainder of first, not of second.   *)
ChainedParser_parse_FirstRemainder(p, d, act) ==
  LET ra == Parse(p.first, d, act)
  IN  CASE ra.tag = "NeverReturns" -> NeverReturns
        [] ra.tag = "Err" -> Err(ra.err, ra.log)
        [] ra.tag = "Ok" ->
             LET rb == Parse(p.second, ra.rest, act)
             IN  CASE rb.tag = "NeverReturns" -> NeverReturns
                   [] rb.tag = "Err" -> Err(rb.err, ra.log \o rb.log)
                   [] rb.tag = "Ok" ->
                        Ok(<<ra.out, rb.out>>, ra.rest, ra.log \o rb.log)

(* ChainedParser::parse going back into an alternation: when second fails  *)
(* after first, an or, the second branch of first is tried with second.    *)
ChainedParser_parse_Backtrack(p, d, act) ==
  LET ra == Parse(p.first, d, act)
  IN  CASE ra.tag = "NeverReturns" -> NeverReturns
        [] ra.tag = "Err" -> Err(ra.err, ra.log)
        [] ra.tag = "Ok" ->
             LET rb == Parse(p.second, ra.rest, act)
             IN  CASE rb.tag = "NeverReturns" -> NeverReturns
                   [] rb.tag = "Err" ->
                        IF p.first.k = "OrParser"
                          THEN LET rc == Parse(p.first.second, d, act)
                                   rd == IF rc.tag = "Ok"
                                           THEN Parse(p.second, rc.rest, act)
                                           ELSE rc
                               IN  IF rd.tag = "Ok"
                                     THEN Ok(<<rc.out, rd.out>>, rd.rest,
                                             ra.log \o rb.log \o rc.log
                                               \o rd.log)
                                     ELSE Err(rb.err, ra.log \o rb.log)
                          ELSE Err(rb.err, ra.log \o rb.log)
                   [] rb.tag = "Ok" ->
                        Ok(<<ra.out, rb.out>>, rb.rest, ra.log \o rb.log)

ChainedParser_parse(p, d, act) ==
  LET ra == Parse(p.first, d, act)
  IN  CASE ra.tag = "NeverReturns" -> NeverReturns
        [] ra.tag = "Err" -> Err(ra.err, ra.log)
        [] ra.tag = "Ok" ->
             LET rb == Parse(p.second, ra.rest, act)
             IN  CASE rb.tag = "NeverReturns" -> NeverReturns
                   [] rb.tag = "Err" -> Err(rb.err, ra.log \o rb.log)
                   [] rb.tag = "Ok" ->
                        Ok(<<ra.out, rb.out>>, rb.rest, ra.log \o rb.log)

(* The loop of RepeatParser::parse leaving after the first success.        *)
RepeatLoop_Once(p, remain, v, log, act) ==
  LET r == Parse(p.parser, remain, act)
  IN  CASE r.tag = "NeverReturns" -> NeverReturns
        [] r.tag = "Ok" -> Ok(Append(v, r.out), r.rest, log \o r.log)
        [] r.tag = "Err" -> Ok(v, remain, log \o r.log)

(* One turn of the loop of RepeatParser::parse.  A turn that succeeds and  *)
(* leaves remain where it was is followed by the same turn for ever.       *)
RepeatLoop(p, remain, v, log, act) ==
  LET r == Parse(p.parser, remain, act)
  IN  CASE r.tag = "NeverReturns" -> NeverReturns
        [] r.tag = "Ok" ->
             IF r.rest = remain
               THEN NeverReturns
               ELSE RepeatLoop(p, r.rest, Append(v, r.out), log \o r.log, act)
        [] r.tag = "Err" -> Ok(v, remain, log \o r.log)

RepeatParser_parse(p, d, act) == RepeatLoop(p, d, <<>>, <<>>, act)

(* MapParser::parse returning the output of its parser as it is.           *)
MapParser_parse_Unmapped(p, d, act) ==
  LET r == Parse(p.parser, d, act)
  IN  CASE r.tag = "NeverReturns" -> NeverReturns
        [] r.tag = "Err" -> Err(r.err, r.log)
        [] r.tag = "Ok" -> Ok(r.out, r.rest, r.log)

MapParser_parse(p, d, act) ==
  LET r == Parse(p.parser, d, act)
  IN  CASE r.tag = "NeverReturns" -> NeverReturns
        [] r.tag = "Err" -> Err(r.err, r.log)
        [] r.tag = "Ok" ->
             Ok(MapFn(p.mapper, r.out), r.rest,
                r.log \o <<MapperEv(p.mapper, r.out)>>)

(* OrParser::parse surfacing the error of first when both fail.            *)
OrParser_parse_FirstError(p, d, act) ==
  LET ra == Parse(p.first, d, act)
  IN  CASE ra.tag = "NeverReturns" -> NeverReturns
        [] ra.tag = "Ok" -> Ok(ra.out, ra.rest, ra.log)
        [] ra.tag = "Err" ->
             LET rb == Parse(p.second, d, act)
             IN  CASE rb.tag = "NeverReturns" -> NeverReturns
                   [] rb.tag = "Ok" -> Ok(rb.out, rb.rest, ra.log \o rb.log)
                   [] rb.tag = "Err" -> Err(ra.err, ra.log \o rb.log)

OrParser_parse(p, d, act) ==
  LET ra == Parse(p.first, d, act)
  IN  CASE ra.tag = "NeverReturns" -> NeverReturns
        [] ra.tag = "Ok" -> Ok(ra.out, ra.rest, ra.log)
        [] ra.tag = "Err" ->
             LET rb == Parse(p.second, d, act)
             IN  CASE rb.tag = "NeverReturns" -> NeverReturns
                   [] rb.tag = "Ok" -> Ok(rb.out, rb.rest, ra.log \o rb.log)
                   [] rb.tag = "Err" -> Err(rb.err, ra.log \o rb.log)

(* OptionParser::parse passing the failure of its parser on.               *)
OptionParser_parse_Propagate(p, d, act) ==
  LET r == Parse(p.parser, d, act)
  IN  CASE r.tag = "NeverReturns" -> NeverReturns
        [] r.tag = "Ok" -> Ok(Some(r.out), r.rest, r.log)
        [] r.tag = "Err" -> Err(r.err, r.log)

OptionParser_parse(p, d, act) ==
  LET r == Parse(p.parser, d, act)
  IN  CASE r.tag = "NeverReturns" -> NeverReturns
        [] r.tag = "Ok" -> Ok(Some(r.out), r.rest, r.log)
        [] r.tag = "Err" -> Ok(None, d, r.log)

(* RecursiveParser::parse invoking the factory twice in a call.            *)
RecursiveParser_parse_TwoInvocations(p, d, act) ==
  IF <<p.parser.fn, d.off>> \in act
    THEN NeverReturns
    ELSE LET r == Parse(Factory(p.parser.fn), d,
                        act \cup {<<p.parser.fn, d.off>>})
             log == <<FactoryEv(p.parser.fn, d), FactoryEv(p.parser.fn, d)>>
         IN  CASE r.tag = "NeverReturns" -> NeverReturns
               [] r.tag = "Ok" -> Ok(r.out, r.rest, log \o r.log)
               [] r.tag = "Err" -> Err(r.err, log \o r.log)

RecursiveParser_parse(p, d, act) ==
  IF <<p.parser.fn, d.off>> \in act
    THEN NeverReturns
    ELSE LET r == Parse(Factory(p.parser.fn), d,
                        act \cup {<<p.parser.fn, d.off>>})
             log == <<FactoryEv(p.parser.fn, d)>>
         IN  CASE r.tag = "NeverReturns" -> NeverReturns
               [] r.tag = "Ok" -> Ok(r.out, r.rest, log \o r.log)
               [] r.tag = "Err" -> Err(r.err, log \o r.log)

(* The loop of RepSepParser::parse returning the input of the last rep.    *)
RepSepLoop_InputOfRep(p, remain, v, log, act) ==
  LET r == Parse(p.rep, remain, act)
  IN  CASE r.tag = "NeverReturns" -> NeverReturns
        [] r.tag = "Err" -> Err(ErrorOnRep(r.err), log \o r.log)
        [] r.tag = "Ok" ->
             LET v2 == Append(v, r.out)
                 s == Parse(p.sep, r.rest, act)
             IN  CASE s.tag = "NeverReturns" -> NeverReturns
                   [] s.tag = "Ok" ->
                        IF s.rest = remain
                          THEN NeverReturns
                          ELSE RepSepLoop(p, s.rest, v2,
                                          log \o r.log \o s.log, act)
                   [] s.tag = "Err" ->
                        IF Len(v2) < p.min_reps
                          THEN Err(NotEnoughReps(p.min_reps, Len(v2)),
                                   log \o r.log \o s.log)
                          ELSE Ok(v2, remain, log \o r.log \o s.log)

(* The loop of RepSepParser::parse returning the list when a later rep     *)
(* fails.                                                                  *)
RepSepLoop_PartialList(p, remain, v, log, act) ==
  LET r == Parse(p.rep, remain, act)
  IN  CASE r.tag = "NeverReturns" -> NeverReturns
        [] r.tag = "Err" ->
             IF v = <<>>
               THEN Err(ErrorOnRep(r.err), log \o r.log)
               ELSE Ok(v, remain, log \o r.log)
        [] r.tag = "Ok" ->
             LET v2 == Append(v, r.out)
                 s == Parse(p.sep, r.rest, act)
             IN  CASE s.tag = "NeverReturns" -> NeverReturns
                   [] s.tag = "Ok" ->
                        IF s.rest = remain
                          THEN NeverReturns
                          ELSE RepSepLoop(p, s.rest, v2,
                                          log \o r.log \o s.log, act)
                   [] s.tag = "Err" ->
                        IF Len(v2) < p.min_reps
                          THEN Err(NotEnoughReps(p.min_reps, Len(v2)),
                                   log \o r.log \o s.log)
                          ELSE Ok(v2, r.rest, log \o r.log \o s.log)

(* The loop of RepSepParser::parse accepting one repetition too few.       *)
RepSepLoop_MinOffByOne(p, remain, v, log, act) ==
  LET r == Parse(p.rep, remain, act)
  IN  CASE r.tag = "NeverReturns" -> NeverReturns
        [] r.tag = "Err" -> Err(ErrorOnRep(r.err), log \o r.log)
        [] r.tag = "Ok" ->
             LET v2 == Append(v, r.out)
                 s == Parse(p.sep, r.rest, act)
             IN  CASE s.tag = "NeverReturns" -> NeverReturns
                   [] s.tag = "Ok" ->
                        IF s.rest = remain
                          THEN NeverReturns
                          ELSE RepSepLoop(p, s.rest, v2,
                                          log \o r.log \o s.log, act)
                   [] s.tag = "Err" ->
                        IF Len(v2) + 1 < p.min_reps
                          THEN Err(NotEnoughReps(p.min_reps, Len(v2)),
                                   log \o r.log \o s.log)
                          ELSE Ok(v2, r.rest, log \o r.log \o s.log)

(* The loop of RepSepParser::parse returning the error of rep as it is.    *)
RepSepLoop_BareError(p, remain, v, log, act) ==
  LET r == Parse(p.rep, remain, act)
  IN  CASE r.tag = "NeverReturns" -> NeverReturns
        [] r.tag = "Err" -> Err(r.err, log \o r.log)
        [] r.tag = "Ok" ->
             LET v2 == Append(v, r.out)
                 s == Parse(p.sep, r.rest, act)
             IN  CASE s.tag = "NeverReturns" -> NeverReturns
                   [] s.tag = "Ok" ->
                        IF s.rest = remain
                          THEN NeverReturns
                          ELSE RepSepLoop(p, s.rest, v2,
                                          log \o r.log \o s.log, act)
                   [] s.tag = "Err" ->
                        IF Len(v2) < p.min_reps
                          THEN Err(NotEnoughReps(p.min_reps, Len(v2)),
                                   log \o r.log \o s.log)
                          ELSE Ok(v2, r.rest, log \o r.log \o s.log)

(* One turn of the loop of RepSepParser::parse.  A turn in which rep and   *)
(* sep both succeed and leave remain where it was is followed by the same  *)
(* turn for ever.                                                          *)
RepSepLoop(p, remain, v, log, act) ==
  LET r == Parse(p.rep, remain, act)
  IN  CASE r.tag = "NeverReturns" -> NeverReturns
        [] r.tag = "Err" -> Err(ErrorOnRep(r.err), log \o r.log)
        [] r.tag = "Ok" ->
             LET v2 == Append(v, r.out)
                 s == Parse(p.sep, r.rest, act)
             IN  CASE s.tag = "NeverReturns" -> NeverReturns
                   [] s.tag = "Ok" ->
                        IF s.rest = remain
                          THEN NeverReturns
                          ELSE RepSepLoop(p, s.rest, v2,
                                          log \o r.log \o s.log, act)
                   [] s.tag = "Err" ->
                        IF Len(v2) < p.min_reps
                          THEN Err(NotEnoughReps(p.min_reps, Len(v2)),
                                   log \o r.log \o s.log)
                          ELSE Ok(v2, r.rest, log \o r.log \o s.log)

RepSepParser_parse(p, d, act) == RepSepLoop(p, d, <<>>, <<>>, act)

(* The for loop of OneOfParser::parse going on after a success and         *)
(* returning the last one.                                                 *)
RECURSIVE OneOfLoop_Last(_, _, _, _, _)
OneOfLoop_Last(p, i, d, log, act) ==
  IF i > Len(p.options)
    THEN Err(AllOptionsFailed, log)
    ELSE LET r == Parse(p.options[i], d, act)
             later == OneOfLoop_Last(p, i + 1, d, log \o r.log, act)
         IN  CASE r.tag = "NeverReturns" -> NeverReturns
               [] r.tag = "Ok" ->
                    IF later.tag = "Err"
                      THEN Ok(r.out, r.rest, later.log)
                      ELSE later
               [] r.tag = "Err" -> later

(* The for loop of OneOfParser::parse returning, when every option has     *)
(* failed, the error of the last option.                                   *)
RECURSIVE OneOfLoop_LastError(_, _, _, _, _)
OneOfLoop_LastError(p, i, d, log, act) ==
  IF i > Len(p.options)
    THEN IF Len(p.options) = 0
           THEN Err(AllOptionsFailed, log)
           ELSE Err(Parse(p.options[Len(p.options)], d, act).err, log)
    ELSE LET r == Parse(p.options[i], d, act)
         IN  CASE r.tag = "NeverReturns" -> NeverReturns
               [] r.tag = "Ok" -> Ok(r.out, r.rest, log \o r.log)
               [] r.tag = "Err" ->
                    OneOfLoop_LastError(p, i + 1, d, log \o r.log, act)

(* The for loop of OneOfParser::parse, at option i.                        *)
OneOfLoop(p, i, d, log, act) ==
  IF i > Len(p.options)
    THEN Err(AllOptionsFailed, log)
    ELSE LET r == Parse(p.options[i], d, act)
         IN  CASE r.tag = "NeverReturns" -> NeverReturns
               [] r.tag = "Ok" -> Ok(r.out, r.rest, log \o r.log)
               [] r.tag = "Err" -> OneOfLoop(p, i + 1, d, log \o r.log, act)

OneOfParser_parse(p, d, act) == OneOfLoop(p, 1, d, <<>>, act)

BoxedParser_parse(p, d, act) ==
  LET r == Parse(p.parser, d, act)
  IN  CASE r.tag = "NeverReturns" -> NeverReturns
        [] r.tag = "Ok" -> Ok(r.out, r.rest, r.log)
        [] r.tag = "Err" -> Err(r.err, r.log)

Dispatch(p, d, act) ==
  CASE p.k = "LiteralParser"   -> LiteralParser_parse(p, d)
    [] p.k = "MatchParser"     -> MatchParser_parse(p, d)
    [] p.k = "ChainedParser"   -> ChainedParser_parse(p, d, act)
    [] p.k = "RepeatParser"    -> RepeatParser_parse(p, d, act)
    [] p.k = "MapParser"       -> MapParser_parse(p, d, act)
    [] p.k = "OrParser"        -> OrParser_parse(p, d, act)
    [] p.k = "OptionParser"    -> OptionParser_parse(p, d, act)
    [] p.k = "RecursiveParser" -> RecursiveParser_parse(p, d, act)
    [] p.k = "RepSepParser"    -> RepSepParser_parse(p, d, act)
    [] p.k = "OneOfParser"     -> OneOfParser_parse(p, d, act)
    [] p.k = "BoxedParser"     -> BoxedParser_parse(p, d, act)

Parse(p, d, act) ==
  LET r == Dispatch(p, d, act)
  IN  IF r.tag = "NeverReturns"
        THEN r
        ELSE [r EXCEPT !.log = <<CallEv(p, d)>> \o @]

(***************************************************************************)
(* What a result tells its caller: the result without the log.             *)
(***************************************************************************)
Returned(r) ==
  CASE r.tag = "Ok" -> <<"Ok", r.out, r.rest>>
    [] r.tag = "Err" -> <<"Err", r.err>>
    [] OTHER -> <<r.tag>>

(***************************************************************************)
(* The output type of a parser (the associated type O), which rustc        *)
(* requires to agree between the two branches of or and between the        *)
(* options of one_of.                                                      *)
(***************************************************************************)
RECURSIVE OType(_)
OType(p) ==
  CASE p.k = "LiteralParser"   -> <<"T">>
    [] p.k = "MatchParser"     -> <<"T">>
    [] p.k = "ChainedParser"   -> <<"pair", OType(p.first), OType(p.second)>>
    [] p.k = "RepeatParser"    -> <<"Vec", OType(p.parser)>>
    [] p.k = "MapParser"       ->
         CASE p.mapper = "snd" -> OType(p.parser)[3]
           [] p.mapper = "fst" -> OType(p.parser)[2]
           [] OTHER -> <<"T">>
    [] p.k = "OrParser"        -> OType(p.first)
    [] p.k = "OptionParser"    -> <<"Option", OType(p.parser)>>
    [] p.k = "RecursiveParser" -> <<"T">>
    [] p.k = "RepSepParser"    -> <<"Vec", OType(p.rep)>>
    [] p.k = "OneOfParser"     ->
         IF p.options = <<>> THEN <<"T">> ELSE OType(p.options[1])
    [] p.k = "BoxedParser"     -> OType(p.parser)

(***************************************************************************)
(* The inputs and the parsers of the model.                                *)
(***************************************************************************)
Inputs == {Slice(s, 0) : s \in UNION {[1..n -> Tokens] : n \in 0..MaxLen}}

MatchFns == {"small", "pred"}

Lits == {lit(t) : t \in Tokens}

Leaves == Lits \cup {matcher(f) : f \in MatchFns}

(* Parsers that consume at least one token whenever they succeed.          *)
Consuming ==
  Leaves
    \cup {then(lit(a), lit(b)) : a, b \in 0..1}
    \cup {or(lit(0), lit(1)),
          or(then_r(lit(0), lit(1)), lit(0)),
          map(then(lit(0), lit(1)), "sum"),
          then_r(lit(0), lit(1)),
          one_of(<<lit(0), lit(2)>>),
          boxed(then(lit(1), lit(0))),
          repsep(lit(0), lit(1)),
          recursive("recurse")}

(* Parsers that can succeed without consuming anything.                    *)
NonConsuming ==
  {opt(lit(0)), repeat(lit(0)), opt(then(lit(0), lit(1))),
   map(repeat(lit(1)), "len")}

Pool == Consuming \cup NonConsuming

OptionLists ==
  {<<>>}
    \cup {<<a>> : a \in Lits}
    \cup {<<a, b>> : a, b \in Lits}
    \cup {<<lit(0), lit(1), lit(2)>>,
          <<matcher("small"), matcher("pred")>>,
          <<lit(0), matcher("small"), matcher("pred")>>,
          <<boxed(then_l(lit(0), lit(1))), boxed(lit(0)), boxed(lit(1))>>,
          <<then(lit(0), lit(1)), then(lit(0), lit(0))>>}

(* The rep and sep parsers of the separated repetitions.                   *)
RepPool ==
  Leaves
    \cup {or(lit(0), lit(2)), then(lit(0), lit(0)), opt(lit(0)),
          recursive("recurse")}

SepPool ==
  Lits
    \cup {then(lit(1), lit(1)), then(lit(1), lit(2)), or(lit(1), lit(2)),
          opt(lit(1)), repeat(lit(1))}

Mappers(t) ==
  CASE t = <<"T">> -> {"zero", "succ"}
    [] t[1] = "pair" ->
         IF t[2] = <<"T">> /\ t[3] = <<"T">>
           THEN {"zero", "fst", "snd", "sum"}
           ELSE {"zero", "fst", "snd"}
    [] t[1] = "Vec" -> {"zero", "len"}
    [] OTHER -> {"zero"}

(* The essential and the noise parsers of skip; the noise parsers consume  *)
(* a token whenever they succeed.                                          *)
SkipEssential == {lit(0), matcher("small"), then(lit(0), lit(0))}

SkipNoise == {lit(1), one_of(<<lit(1), lit(2)>>), matcher("pred")}

(* The parsers parse is called on: one combinator over parsers of Pool.    *)
Parsers ==
  Lits
    \cup {matcher(f) : f \in MatchFns}
    \cup {then(a, b) : a, b \in Pool}
    \cup {repeat(a) : a \in Pool}
    \cup UNION {{map(a, g) : g \in Mappers(OType(a))} : a \in Pool}
    \cup UNION {{or(a, b) : b \in {c \in Pool : OType(c) = OType(a)}} :
                 a \in Pool}
    \cup {opt(a) : a \in Pool}
    \cup {recursive(f) : f \in FactoryNames}
    \cup {Factory(f) : f \in FactoryNames}
    \cup {repsep_min(rep, sep, min) :
            rep \in RepPool, sep \in SepPool, min \in 0..MaxMinReps}
    \cup {one_of(t) : t \in OptionLists}
    \cup {boxed(a) : a \in Pool}
    \cup {skip(e, n) : e \in SkipEssential, n \in SkipNoise}
    \cup {repeat(skip(lit(0), n)) : n \in SkipNoise}

(***************************************************************************)
(* The state: a parser, the slice parse is called with, what the call      *)
(* returned, and the earlier calls made on the parser, each with the       *)
(* parser as it was, the slice given and what was returned.  Initially the *)
(* parser has been constructed and the input chosen, and parse has not     *)
(* been called.                                                            *)
(***************************************************************************)
Init ==
  /\ parser \in Parsers
  /\ data \in Inputs
  /\ result = NoCall
  /\ history = <<>>

LiteralParse ==
  /\ parser.k = "LiteralParser"
  /\ result = NoCall
  /\ result' = Parse(parser, data, {})
  /\ UNCHANGED <<parser, data, history>>

MatchParse ==
  /\ parser.k = "MatchParser"
  /\ result = NoCall
  /\ result' = Parse(parser, data, {})
  /\ UNCHANGED <<parser, data, history>>

ChainedParse ==
  /\ parser.k = "ChainedParser"
  /\ result = NoCall
  /\ result' = Parse(parser, data, {})
  /\ UNCHANGED <<parser, data, history>>

RepeatParse ==
  /\ parser.k = "RepeatParser"
  /\ result = NoCall
  /\ result' = Parse(parser, data, {})
  /\ UNCHANGED <<parser, data, history>>

MapParse ==
  /\ parser.k = "MapParser"
  /\ result = NoCall
  /\ result' = Parse(parser, data, {})
  /\ UNCHANGED <<parser, data, history>>

OrParse ==
  /\ parser.k = "OrParser"
  /\ result = NoCall
  /\ result' = Parse(parser, data, {})
  /\ UNCHANGED <<parser, data, history>>

OptionParse ==
  /\ parser.k = "OptionParser"
  /\ result = NoCall
  /\ result' = Parse(parser, data, {})
  /\ UNCHANGED <<parser, data, history>>

RecursiveParse ==
  /\ parser.k = "RecursiveParser"
  /\ result = NoCall
  /\ result' = Parse(parser, data, {})
  /\ UNCHANGED <<parser, data, history>>

RepSepParse ==
  /\ parser.k = "RepSepParser"
  /\ result = NoCall
  /\ result' = Parse(parser, data, {})
  /\ UNCHANGED <<parser, data, history>>

OneOfParse ==
  /\ parser.k = "OneOfParser"
  /\ result = NoCall
  /\ result' = Parse(parser, data, {})
  /\ UNCHANGED <<parser, data, history>>

BoxedParse ==
  /\ parser.k = "BoxedParser"
  /\ result = NoCall
  /\ result' = Parse(parser, data, {})
  /\ UNCHANGED <<parser, data, history>>

Next ==
  \/ LiteralParse
  \/ MatchParse
  \/ ChainedParse
  \/ RepeatParse
  \/ MapParse
  \/ OrParse
  \/ OptionParse
  \/ RecursiveParse
  \/ RepSepParse
  \/ OneOfParse
  \/ BoxedParse

Spec == Init /\ [][Next]_vars

(***************************************************************************)
(* Calling parse again on the same parser (parse takes &self), as          *)
(* test_opt does with two inputs.                                          *)
(***************************************************************************)
ReuseInputs ==
  {Slice(s, 0) : s \in UNION {[1..n -> Tokens] : n \in 0..MaxReuseLen}}

ReuseParsers ==
  {lit(1), matcher("small"), then(lit(0), lit(1)), repeat(lit(1)),
   map(then(lit(0), lit(1)), "sum"), or(lit(1), lit(0)), opt(lit(1)),
   recursive("recurse"), repsep(lit(0), lit(1)), one_of(<<lit(0), lit(2)>>),
   boxed(then(lit(1), lit(0))), repeat(or(lit(1), lit(0)))}

InitReuse ==
  /\ parser \in ReuseParsers
  /\ data \in ReuseInputs
  /\ result = NoCall
  /\ history = <<>>

(* parse resuming where the previous call on the parser stopped.           *)
ReuseParse_Resuming ==
  /\ result.tag \in {"Ok", "Err"}
  /\ Len(history) + 1 < MaxCalls
  /\ \E x \in ReuseInputs :
       /\ data' = x
       /\ result' =
            IF result.tag = "Ok" /\ result.rest.off <= Len(x.buf)
              THEN Parse(parser, SliceFrom(x, result.rest.off), {})
              ELSE Parse(parser, x, {})
  /\ history' = Append(history, [parser |-> parser, input |-> data,
                                 ret |-> Returned(result)])
  /\ UNCHANGED parser

ReuseParse ==
  /\ result.tag \in {"Ok", "Err"}
  /\ Len(history) + 1 < MaxCalls
  /\ \E x \in ReuseInputs :
       /\ data' = x
       /\ result' = Parse(parser, x, {})
  /\ history' = Append(history, [parser |-> parser, input |-> data,
                                 ret |-> Returned(result)])
  /\ UNCHANGED parser

NextReuse == Next \/ ReuseParse

SpecReuse == InitReuse /\ [][NextReuse]_vars

(***************************************************************************)
(* Properties.                                                             *)
(***************************************************************************)
Called(kind) == parser.k = kind /\ result.tag # "NoCall"

(* What a child parser returns on a slice when called on its own.          *)
Sub(p, d) == Parse(p, d, {})

(* C1: or(A, B).parse(x) returns what A.parse(x) returns when A succeeds   *)
(* on x; when A fails it returns what B.parse(x) returns on the original   *)
(* input x, B being called at the offset of x; when both fail the error    *)
(* is B's error.                                                           *)
C1_OrOrderedChoice ==
  Called("OrParser") =>
    LET ra == Sub(parser.first, data)
        rb == Sub(parser.second, data)
    IN  /\ ra.tag = "Ok" => Returned(result) = Returned(ra)
        /\ ra.tag = "Err" =>
             /\ Returned(result) = Returned(rb)
             /\ rb.tag # "NeverReturns" =>
                  LET e == result.log[2 + Len(ra.log)]
                  IN  e.ev = "parse" /\ e.p = parser.second /\ e.off = data.off
        /\ (ra.tag = "Err" /\ rb.tag = "Err") =>
             result.tag = "Err" /\ result.err = rb.err

(* A is a sequence that matched its first element and then failed, and B   *)
(* succeeded from the original input.                                      *)
C1_Witness ==
  /\ Called("OrParser")
  /\ parser.first.k = "ChainedParser"
  /\ Sub(parser.first.first, data).tag = "Ok"
  /\ Sub(parser.first, data).tag = "Err"
  /\ result.tag = "Ok"
  /\ result.rest.off = 2

(* C2: then(A, B).parse(x) succeeds exactly when A succeeds on x with      *)
(* (a, r1) and B succeeds on r1 with (b, r2), and then returns             *)
(* ((a, b), r2); when A fails B is not called and the sequence fails; when *)
(* A succeeds and B fails the sequence fails and carries no output.        *)
C2_ThenSequence ==
  Called("ChainedParser") =>
    LET ra == Sub(parser.first, data)
    IN  /\ ra.tag = "Err" =>
             /\ result.tag = "Err"
             /\ Len(result.log) = 1 + Len(ra.log)
        /\ ra.tag = "Ok" =>
             LET rb == Sub(parser.second, ra.rest)
             IN  /\ rb.tag = "Ok" =>
                      Returned(result) = <<"Ok", <<ra.out, rb.out>>, rb.rest>>
                 /\ rb.tag = "Err" =>
                      result.tag = "Err" /\ "out" \notin DOMAIN result
        /\ result.tag = "Ok" =>
             ra.tag = "Ok" /\ Sub(parser.second, ra.rest).tag = "Ok"

(* Both A and B succeeded, each consuming, and something is left over.     *)
C2_Witness ==
  /\ Called("ChainedParser")
  /\ result.tag = "Ok"
  /\ Sub(parser.first, data).rest.off = 1
  /\ result.rest.off = 2
  /\ SliceLen(result.rest) = 1

(* v is the list of the outputs of successive successful applications of   *)
(* p from d on, r is the slice after the last of them, and p fails on r.   *)
RECURSIVE SuccessiveRun(_, _, _, _)
SuccessiveRun(p, d, v, r) ==
  LET a == Sub(p, d)
  IN  IF v = <<>>
        THEN r = d /\ a.tag = "Err"
        ELSE /\ a.tag = "Ok"
             /\ a.out = Head(v)
             /\ SuccessiveRun(p, a.rest, Tail(v), r)

(* C3: repeat(P).parse(x) never returns a failure; what it returns is      *)
(* Success(v, r) with v the outputs of the successive successful           *)
(* applications of P from x on, r the slice after the last of them, and P  *)
(* failing on r; when P fails on x itself, v is empty and r is x.          *)
C3_RepeatNeverFails ==
  Called("RepeatParser") =>
    /\ result.tag # "Err"
    /\ result.tag = "Ok" =>
         SuccessiveRun(parser.parser, data, result.out, result.rest)
    /\ Sub(parser.parser, data).tag = "Err" =>
         Returned(result) = <<"Ok", <<>>, data>>

(* Three applications succeeded and the fourth failed on a token.          *)
C3_Witness ==
  /\ Called("RepeatParser")
  /\ result.tag = "Ok"
  /\ Len(result.out) >= 2
  /\ SliceLen(result.rest) >= 1
  /\ Sub(parser.parser, result.rest).tag = "Err"

(* From d on, rep succeeds k times with sep succeeding between the         *)
(* repetitions, and sep fails after the k-th.                              *)
RECURSIVE StopsAtSep(_, _, _)
StopsAtSep(p, d, k) ==
  LET r == Sub(p.rep, d)
  IN  /\ k >= 1
      /\ r.tag = "Ok"
      /\ LET s == Sub(p.sep, r.rest)
         IN  IF k = 1
               THEN s.tag = "Err"
               ELSE s.tag = "Ok" /\ StopsAtSep(p, s.rest, k - 1)

(* From d on, rep and then sep succeed k times, and rep fails after that.  *)
RECURSIVE FailsAtRep(_, _, _)
FailsAtRep(p, d, k) ==
  LET r == Sub(p.rep, d)
  IN  IF k = 0
        THEN r.tag = "Err"
        ELSE /\ r.tag = "Ok"
             /\ LET s == Sub(p.sep, r.rest)
                IN  s.tag = "Ok" /\ FailsAtRep(p, s.rest, k - 1)

(* v is the list of the outputs of rep in a run of rep, sep, rep, ... from *)
(* d on that ends with sep failing, and r is what the last rep left.       *)
RECURSIVE SeparatedRun(_, _, _, _)
SeparatedRun(p, d, v, r) ==
  LET a == Sub(p.rep, d)
  IN  /\ v # <<>>
      /\ a.tag = "Ok"
      /\ a.out = Head(v)
      /\ LET s == Sub(p.sep, a.rest)
         IN  IF Len(v) = 1
               THEN s.tag = "Err" /\ r = a.rest
               ELSE s.tag = "Ok" /\ SeparatedRun(p, s.rest, Tail(v), r)

MaxReps == SliceLen(data) + 1

(* C4: when sep fails after k >= min_reps successful rep parses, repsep    *)
(* succeeds with exactly those k outputs of rep, in order and without the  *)
(* outputs of sep, and with the remainder rep returned just before the     *)
(* failed sep, whatever sep matched before failing.                        *)
C4_RepSepRemainder ==
  Called("RepSepParser") =>
    /\ \A k \in 1..MaxReps :
         (StopsAtSep(parser, data, k) /\ k >= parser.min_reps) =>
           /\ result.tag = "Ok"
           /\ Len(result.out) = k
    /\ result.tag = "Ok" =>
         SeparatedRun(parser, data, result.out, result.rest)

(* The separator is a sequence that matched its first token after the last *)
(* rep and then failed.                                                    *)
C4_Witness ==
  /\ Called("RepSepParser")
  /\ result.tag = "Ok"
  /\ parser.sep.k = "ChainedParser"
  /\ Sub(parser.sep.first, result.rest).tag = "Ok"
  /\ Sub(parser.sep, result.rest).tag = "Err"
  /\ SliceLen(result.rest) >= 2

(* C5: a failure of rep is fatal: when rep fails on the first attempt or   *)
(* right after a successful sep, repsep returns a failure, whatever        *)
(* min_reps is; repsep never succeeds with an empty list.                  *)
C5_RepFailureFatal ==
  Called("RepSepParser") =>
    /\ \A k \in 0..MaxReps :
         FailsAtRep(parser, data, k) =>
           result.tag = "Err" /\ "out" \notin DOMAIN result
    /\ result.tag = "Ok" => result.out # <<>>

(* The input ends in a separator and min_reps is 0.                        *)
C5_Witness ==
  /\ Called("RepSepParser")
  /\ parser.min_reps = 0
  /\ \E k \in 1..MaxReps :
       /\ FailsAtRep(parser, data, k)
       /\ Sub(parser.rep, data).rest.off = 1
  /\ result.tag = "Err"
  /\ result.err = ErrorOnRep(EndOfInput)

(* C6: when sep fails after k successful rep parses, repsep fails with     *)
(* NotEnoughReps(min_reps, k) if k < min_reps and succeeds otherwise; a    *)
(* success has at least min_reps elements.                                 *)
C6_RepSepMinReps ==
  Called("RepSepParser") =>
    /\ \A k \in 1..MaxReps :
         StopsAtSep(parser, data, k) =>
           IF k < parser.min_reps
             THEN Returned(result) =
                    <<"Err", NotEnoughReps(parser.min_reps, k)>>
             ELSE result.tag = "Ok"
    /\ result.tag = "Ok" => Len(result.out) >= parser.min_reps

(* Two repetitions were parsed and three are required.                     *)
C6_Witness ==
  /\ Called("RepSepParser")
  /\ parser.min_reps = 3
  /\ StopsAtSep(parser, data, 2)
  /\ result.tag = "Err"
  /\ result.err = "Not enough reps: required 3, got 2"

(* C7: opt(P).parse(x) never fails: when P succeeds on x with (v, r) it    *)
(* returns Success(Some(v), r); when P fails on x it returns               *)
(* Success(None, x), the remainder being the original slice, also when P   *)
(* matched leading elements before failing.                                *)
C7_OptNeverFails ==
  Called("OptionParser") =>
    LET r == Sub(parser.parser, data)
    IN  /\ result.tag # "Err"
        /\ r.tag = "Ok" => Returned(result) = <<"Ok", Some(r.out), r.rest>>
        /\ r.tag = "Err" => Returned(result) = <<"Ok", None, data>>

(* P is a sequence that matched its first element and then failed.         *)
C7_Witness ==
  /\ Called("OptionParser")
  /\ parser.parser.k = "ChainedParser"
  /\ Sub(parser.parser.first, data).tag = "Ok"
  /\ Sub(parser.parser, data).tag = "Err"
  /\ Returned(result) = <<"Ok", None, data>>

(* C8: lit(l) on an empty slice fails with EndOfInput; on a slice whose    *)
(* first element equals l it succeeds with that element and the slice less *)
(* its first element; on a slice whose first element differs from l it     *)
(* fails with Mismatch.                                                    *)
C8_Literal ==
  Called("LiteralParser") =>
    /\ SliceLen(data) = 0 => Returned(result) = <<"Err", "ran out of data">>
    /\ (SliceLen(data) > 0 /\ data.buf[data.off + 1] = parser.literal) =>
         /\ result.tag = "Ok"
         /\ result.out = data.buf[data.off + 1]
         /\ result.rest.buf = data.buf
         /\ result.rest.off = data.off + 1
         /\ SliceElems(result.rest) = Tail(SliceElems(data))
    /\ (SliceLen(data) > 0 /\ data.buf[data.off + 1] # parser.literal) =>
         Returned(result) = <<"Err", "Literal mismatch">>

(* The literal matched the first of several elements.                      *)
C8_Witness ==
  /\ Called("LiteralParser")
  /\ result.tag = "Ok"
  /\ SliceLen(data) >= 2
  /\ SliceLen(result.rest) = SliceLen(data) - 1

(* The applications of the matcher closure recorded in a log.              *)
MatcherCalls(log) == {i \in DOMAIN log : log[i].ev = "matcher"}

(* C9: matcher(f) on an empty slice fails with EndOfInput without calling  *)
(* f; otherwise it applies f once, to the first element, and succeeds with *)
(* (u, the slice less its first element) when f returns Some(u) and fails  *)
(* with MatchFailed when f returns None.  repeat(matcher(f)) collects the  *)
(* transformed values of the longest leading run of accepted tokens and    *)
(* leaves the first rejected token at the head of the remainder.           *)
C9_Matcher ==
  /\ Called("MatchParser") =>
       /\ SliceLen(data) = 0 =>
            /\ Returned(result) = <<"Err", "ran out of data">>
            /\ MatcherCalls(result.log) = {}
       /\ SliceLen(data) > 0 =>
            LET m == MatchFn(parser.matcher, data.buf[data.off + 1])
            IN  /\ Cardinality(MatcherCalls(result.log)) = 1
                /\ \A i \in MatcherCalls(result.log) :
                     result.log[i].t = data.buf[data.off + 1]
                /\ m.some =>
                     Returned(result) =
                       <<"Ok", m.val, Slice(data.buf, data.off + 1)>>
                /\ ~m.some => Returned(result) = <<"Err", "Match failed">>
  /\ (Called("RepeatParser") /\ parser.parser.k = "MatchParser") =>
       /\ result.tag = "Ok"
       /\ result.rest = Slice(data.buf, data.off + Len(result.out))
       /\ \A i \in 1..Len(result.out) :
            LET m == MatchFn(parser.parser.matcher, data.buf[data.off + i])
            IN  m.some /\ result.out[i] = m.val
       /\ SliceLen(result.rest) > 0 =>
            ~MatchFn(parser.parser.matcher,
                     result.rest.buf[result.rest.off + 1]).some

(* A run of two accepted tokens, transformed, in front of a rejected one.  *)
C9_Witness ==
  /\ Called("RepeatParser")
  /\ parser.parser = matcher("pred")
  /\ result.tag = "Ok"
  /\ Len(result.out) = 2
  /\ result.out[1] # data.buf[1]
  /\ SliceLen(result.rest) = 1

(* The length of the logs of the options 1..i of a one_of called on d.     *)
RECURSIVE LogLenUpTo(_, _, _)
LogLenUpTo(opts, d, i) ==
  IF i = 0 THEN 0 ELSE Len(Sub(opts[i], d).log) + LogLenUpTo(opts, d, i - 1)

(* C10: one_of([P1..Pn]).parse(x) returns the result, on x, of the first   *)
(* option in list order that succeeds on x, the options after it not being *)
(* called; it fails, with AllOptionsFailed, exactly when every option      *)
(* fails on x, as with an empty list.                                      *)
C10_OneOf ==
  Called("OneOfParser") =>
    LET opts == parser.options
        oks == {i \in DOMAIN opts : Sub(opts[i], data).tag = "Ok"}
    IN  /\ oks = {} <=> result.tag = "Err"
        /\ result.tag = "Err" =>
             Returned(result) = <<"Err", "All options failed">>
        /\ \A i \in oks :
             (\A j \in oks : i <= j) =>
               /\ Returned(result) = Returned(Sub(opts[i], data))
               /\ Len(result.log) = 1 + LogLenUpTo(opts, data, i)
               /\ \A j \in 1..i :
                    LET e == result.log[2 + LogLenUpTo(opts, data, j - 1)]
                    IN  e.ev = "parse" /\ e.p = opts[j] /\ e.off = data.off

(* The first option fails, the second succeeds and the third would succeed *)
(* with another result.                                                    *)
C10_Witness ==
  /\ Called("OneOfParser")
  /\ Len(parser.options) = 3
  /\ Sub(parser.options[1], data).tag = "Err"
  /\ Sub(parser.options[2], data).tag = "Ok"
  /\ Sub(parser.options[3], data).tag = "Ok"
  /\ Returned(Sub(parser.options[3], data)) # Returned(result)
  /\ result.tag = "Ok"

(* The applications of the mapper closure g recorded in a log.             *)
MapperCalls(log, g) ==
  {i \in DOMAIN log : log[i].ev = "mapper" /\ log[i].g = g}

(* C11: map(P, g).parse(x) succeeds or fails as P.parse(x) does, with the  *)
(* same remainder; on success its output is g of the output of P, g being  *)
(* applied once more than inside P; when P fails the error is P's and g    *)
(* is applied no more often than inside P.                                 *)
C11_MapSameStatus ==
  Called("MapParser") =>
    LET r == Sub(parser.parser, data)
        g == parser.mapper
    IN  /\ result.tag = r.tag
        /\ r.tag = "Ok" =>
             /\ result.rest = r.rest
             /\ result.out = MapFn(g, r.out)
             /\ Cardinality(MapperCalls(result.log, g)) =
                  Cardinality(MapperCalls(r.log, g)) + 1
             /\ result.log[Len(result.log)].ev = "mapper"
        /\ r.tag = "Err" =>
             /\ result.err = r.err
             /\ Cardinality(MapperCalls(result.log, g)) =
                  Cardinality(MapperCalls(r.log, g))

(* The mapped parser consumed two tokens and the mapper changed its        *)
(* output.                                                                 *)
C11_Witness ==
  /\ Called("MapParser")
  /\ parser.mapper = "sum"
  /\ result.tag = "Ok"
  /\ result.rest.off = 2
  /\ result.out = data.buf[1] + data.buf[2]

RECURSIVE LeadingZeros(_)
LeadingZeros(s) ==
  IF s # <<>> /\ Head(s) = 0 THEN 1 + LeadingZeros(Tail(s)) ELSE 0

(* C12: the grammar of test_recursive, called directly or through a        *)
(* recursive reference, succeeds on n zeros followed by a one and any rest *)
(* with the output n and that rest as remainder, and fails when the        *)
(* leading zeros are followed by the end of the input or by another token. *)
C12_CountZeros ==
  (result.tag # "NoCall"
     /\ parser.k \in {"OrParser", "RecursiveParser"}
     /\ parser \in {Factory("recurse"), recursive("recurse")}) =>
    LET n == LeadingZeros(data.buf)
    IN  IF n < Len(data.buf) /\ data.buf[n + 1] = 1
          THEN Returned(result) = <<"Ok", n, Slice(data.buf, n + 1)>>
          ELSE result.tag = "Err"

(* Zeros, a one and a rest.                                                *)
C12_Witness ==
  /\ result.tag = "Ok"
  /\ parser = Factory("recurse")
  /\ result.out >= 1
  /\ SliceLen(result.rest) >= 1

(* C13: skip(E, N).parse(x) returns what repeat(N) then_r E then_l         *)
(* repeat(N) returns: with the maximal leading run of N removed it fails   *)
(* exactly when E fails there, its output is the output of E, and its      *)
(* remainder is what is left of the remainder of E after the maximal run   *)
(* of N, so that N fails on it.  repeat(skip(lit(0), N)) returns the zeros *)
(* of the zeros and noise tokens it consumed.                              *)
C13_Skip ==
  /\ \A e \in SkipEssential, n \in SkipNoise :
       (result.tag # "NoCall" /\ parser.k = "MapParser"
          /\ parser = skip(e, n)) =>
         LET lead == Sub(repeat(n), data)
             mid == Sub(e, lead.rest)
         IN  /\ Returned(result) =
                  Returned(Sub(then_l(then_r(repeat(n), e), repeat(n)), data))
             /\ SuccessiveRun(n, data, lead.out, lead.rest)
             /\ result.tag = "Err" <=> mid.tag = "Err"
             /\ mid.tag = "Ok" =>
                  /\ result.tag = "Ok"
                  /\ result.out = mid.out
                  /\ result.rest = Sub(repeat(n), mid.rest).rest
                  /\ Sub(n, result.rest).tag = "Err"
  /\ \A n \in SkipNoise :
       (Called("RepeatParser") /\ parser = repeat(skip(lit(0), n))) =>
         LET IsZero(t) == t = 0
             consumed == SubSeq(data.buf, data.off + 1, result.rest.off)
         IN  /\ result.tag = "Ok"
             /\ \A i \in DOMAIN consumed :
                  consumed[i] = 0 \/ Sub(n, Slice(<<consumed[i]>>, 0)).tag = "Ok"
             /\ result.out = SelectSeq(consumed, IsZero)
             /\ Sub(skip(lit(0), n), result.rest).tag = "Err"

(* Noise in front of and behind the essential token, and a token left.     *)
C13_Witness ==
  /\ result.tag = "Ok"
  /\ parser = skip(lit(0), lit(1))
  /\ data.buf[1] = 1
  /\ result.rest.off = 3

(* What rep returns after rep and then sep succeeded k times from d on.    *)
RECURSIVE RepAfter(_, _, _)
RepAfter(p, d, k) ==
  IF k = 0
    THEN Sub(p.rep, d)
    ELSE RepAfter(p, Sub(p.sep, Sub(p.rep, d).rest).rest, k - 1)

(* then, map, recursive and boxed return the error of the child that       *)
(* failed as it is.                                                        *)
ChildErrorUnchanged ==
  /\ Called("ChainedParser") =>
       LET ra == Sub(parser.first, data)
       IN  /\ ra.tag = "Err" => Returned(result) = <<"Err", ra.err>>
           /\ ra.tag = "Ok" =>
                LET rb == Sub(parser.second, ra.rest)
                IN  rb.tag = "Err" => Returned(result) = <<"Err", rb.err>>
  /\ Called("MapParser") =>
       LET r == Sub(parser.parser, data)
       IN  r.tag = "Err" => Returned(result) = <<"Err", r.err>>
  /\ Called("RecursiveParser") =>
       LET r == Sub(Factory(parser.parser.fn), data)
       IN  r.tag = "Err" => Returned(result) = <<"Err", r.err>>
  /\ Called("BoxedParser") =>
       LET r == Sub(parser.parser, data)
       IN  r.tag = "Err" => Returned(result) = <<"Err", r.err>>

(* C14, as claimed: a combinator that fails because a child failed returns *)
(* the error of the child unchanged: then, map, recursive, boxed, and      *)
(* repsep for the error of rep.                                            *)
C14_ErrorUnchanged ==
  /\ ChildErrorUnchanged
  /\ Called("RepSepParser") =>
       \A k \in 0..MaxReps :
         FailsAtRep(parser, data, k) =>
           Returned(result) = <<"Err", RepAfter(parser, data, k).err>>

(* C14, amended: then, map, recursive and boxed return the error of the    *)
(* child unchanged; repsep returns the error of rep behind the prefix      *)
(* "Error on rep: ".                                                       *)
C14_ErrorUnchangedButRepSep ==
  /\ ChildErrorUnchanged
  /\ Called("RepSepParser") =>
       \A k \in 0..MaxReps :
         FailsAtRep(parser, data, k) =>
           Returned(result) =
             <<"Err", "Error on rep: " \o RepAfter(parser, data, k).err>>

(* rep failed on a token after a separator.                                *)
C14_Witness ==
  /\ Called("RepSepParser")
  /\ FailsAtRep(parser, data, 1)
  /\ RepAfter(parser, data, 1).err = "Literal mismatch"
  /\ result.tag = "Err"
  /\ result.err = "Error on rep: Literal mismatch"

C16_RepeatTerminates ==
  (/\ Called("RepeatParser")
   /\ \A k \in 0..SliceLen(data) :
        Sub(parser.parser, SliceFrom(data, k)).tag # "NeverReturns") =>
    /\ result.tag = "Ok"
    /\ Len(result.out) + 1 <= SliceLen(data) + 1

(* The binary alternation P1.or(P2)...or(Pn) of a non-empty list.          *)
RECURSIVE OrChain(_)
OrChain(opts) ==
  IF Len(opts) = 1
    THEN opts[1]
    ELSE or(OrChain(SubSeq(opts, 1, Len(opts) - 1)), opts[Len(opts)])

(* C17 as stated: one_of of a non-empty list returns on every input what   *)
(* P1.or(P2)...or(Pn) returns, the failure included.                       *)
C17_OneOfIsOrChain ==
  (Called("OneOfParser") /\ Len(parser.options) >= 1) =>
    Returned(result) = Returned(Sub(OrChain(parser.options), data))

(* C17: one_of of a non-empty list and P1.or(P2)...or(Pn) succeed on the   *)
(* same inputs with the same output and remainder and fail on the same     *)
(* inputs; when every option fails one_of returns "All options failed"     *)
(* and the alternation returns the error of Pn.                            *)
C17_OneOfIsOrChainButError ==
  (Called("OneOfParser") /\ Len(parser.options) >= 1) =>
    LET rc == Sub(OrChain(parser.options), data)
        last == Sub(parser.options[Len(parser.options)], data)
    IN  /\ result.tag = rc.tag
        /\ result.tag = "Ok" => Returned(result) = Returned(rc)
        /\ result.tag = "Err" =>
             /\ result.err = AllOptionsFailed
             /\ rc.err = last.err
             /\ rc.err # AllOptionsFailed

(* Three options fail on a token that is there, and the alternation of    *)
(* the three fails with another error than one_of does.                    *)
C17_Witness ==
  /\ Called("OneOfParser")
  /\ Len(parser.options) = 3
  /\ SliceLen(data) >= 1
  /\ result.tag = "Err"
  /\ Sub(OrChain(parser.options), data).tag = "Err"
  /\ Sub(OrChain(parser.options), data).err # result.err

(* s is d with some number k >= 0 of leading elements removed.             *)
IsSuffixOf(s, d) ==
  /\ s.buf = d.buf
  /\ d.off <= s.off
  /\ s.off <= Len(d.buf)

(* The children ps of a parser are called one after the other from         *)
(* position pos of the log on, child i first and with d (after the last    *)
(* child the first again when cyc holds): each call is logged with the     *)
(* slice handed over, each remainder is a suffix of the slice the child    *)
(* was given and is not past fin, and is what the next child is given.     *)
RECURSIVE HandedOn(_, _, _, _, _, _, _)
HandedOn(ps, i, cyc, d, log, pos, fin) ==
  i <= Len(ps) =>
    LET r == Sub(ps[i], d)
    IN  /\ pos <= Len(log)
        /\ log[pos].ev = "parse"
        /\ log[pos].p = ps[i]
        /\ log[pos].off = d.off
        /\ r.tag = "Ok" =>
             /\ IsSuffixOf(r.rest, d)
             /\ r.rest.off <= fin
             /\ HandedOn(ps, IF cyc /\ i = Len(ps) THEN 1 ELSE i + 1, cyc,
                         r.rest, log, pos + Len(r.log), fin)

(* C18: every Success has a remainder that is a suffix of the input, every *)
(* parser called in the course of the parse is called at a position of    *)
(* the input, and inside then, repeat and repsep the remainders handed     *)
(* from one child to the next are successive suffixes, none before the     *)
(* one before it and none past the remainder returned.                     *)
C18_RemainderIsSuffix ==
  /\ result.tag = "Ok" => IsSuffixOf(result.rest, data)
  /\ result.tag \in {"Ok", "Err"} =>
       LET fin == IF result.tag = "Ok" THEN result.rest.off ELSE Len(data.buf)
       IN  /\ \A i \in DOMAIN result.log :
                result.log[i].ev \in {"parse", "factory"} =>
                  /\ data.off <= result.log[i].off
                  /\ result.log[i].off <= Len(data.buf)
           /\ parser.k = "ChainedParser" =>
                HandedOn(<<parser.first, parser.second>>, 1, FALSE, data,
                         result.log, 2, fin)
           /\ parser.k = "RepeatParser" =>
                HandedOn(<<parser.parser>>, 1, TRUE, data, result.log, 2, fin)
           /\ parser.k = "RepSepParser" =>
                HandedOn(<<parser.rep, parser.sep>>, 1, TRUE, data,
                         result.log, 2, fin)

(* A repetition of a sequence of two stops after one turn with one token   *)
(* left.                                                                   *)
C18_Witness ==
  /\ Called("RepeatParser")
  /\ parser.parser.k = "ChainedParser"
  /\ result.tag = "Ok"
  /\ Len(result.out) = 1
  /\ result.rest.off = 2
  /\ SliceLen(data) = 3

(* The invocations of a factory and the calls of parse on a recursive      *)
(* reference in a log.                                                     *)
FactoryCalls(log) == {i \in DOMAIN log : log[i].ev = "factory"}

RecursiveCalls(log) ==
  {i \in DOMAIN log :
     log[i].ev = "parse" /\ log[i].p.k = "RecursiveParser"}

(* The grammars of FactoryNames, called directly or through a reference.   *)
IsGrammar(f) ==
  /\ parser.k \in {"OrParser", "RecursiveParser"}
  /\ parser \in {Factory(f), recursive(f)}

(* C19: no factory is invoked before parse is called; in a parse that      *)
(* returns, every call of parse on a recursive reference invokes the       *)
(* factory of the reference once, at the position of the call, and no      *)
(* factory is invoked otherwise.  recurse, whose reference follows a       *)
(* lit, returns on every input, and called by itself invokes the factory   *)
(* at most once per token, each time at another position.  leftrec, which  *)
(* reaches its reference first, returns on no input.  optrec, whose        *)
(* reference follows an optional lit, returns exactly on the inputs where  *)
(* the reference is never reached without a token consumed: zeros          *)
(* followed by a one.                                                      *)
C19_FactoryOnDemand ==
  /\ result.tag \in {"NoCall", "NeverReturns"} => "log" \notin DOMAIN result
  /\ result.tag \in {"Ok", "Err"} =>
       /\ \A i \in RecursiveCalls(result.log) :
            /\ i + 1 \in FactoryCalls(result.log)
            /\ result.log[i + 1].fn = result.log[i].p.parser.fn
            /\ result.log[i + 1].off = result.log[i].off
       /\ \A i \in FactoryCalls(result.log) :
            i - 1 \in RecursiveCalls(result.log)
       /\ Cardinality(FactoryCalls(result.log)) =
            Cardinality(RecursiveCalls(result.log))
  /\ (result.tag # "NoCall" /\ IsGrammar("recurse")) =>
       result.tag \in {"Ok", "Err"}
  /\ (result.tag # "NoCall" /\ parser.k = "OrParser"
        /\ parser \in {Factory("recurse"), Factory("optrec")}
        /\ result.tag \in {"Ok", "Err"}) =>
       /\ Cardinality(FactoryCalls(result.log)) <= SliceLen(data)
       /\ \A i, j \in FactoryCalls(result.log) :
            i # j => result.log[i].off # result.log[j].off
       /\ \A i \in FactoryCalls(result.log) : result.log[i].off > data.off
  /\ (result.tag # "NoCall" /\ IsGrammar("leftrec")) =>
       result.tag = "NeverReturns"
  /\ (result.tag # "NoCall" /\ IsGrammar("optrec")) =>
       LET n == LeadingZeros(data.buf)
       IN  (result.tag = "NeverReturns") <=>
             ~(n < Len(data.buf) /\ data.buf[n + 1] = 1)

(* The grammar of test_recursive invokes its factory once for every token  *)
(* of an input of three tokens.                                            *)
C19_Witness ==
  /\ result.tag \in {"Ok", "Err"}
  /\ parser.k = "OrParser"
  /\ parser = Factory("recurse")
  /\ SliceLen(data) = 3
  /\ Cardinality(FactoryCalls(result.log)) = 3

(* C20: when A succeeds on x, or(A, B).then(C) returns on x what           *)
(* A.then(C) returns, so it fails with the error of C when C fails on the  *)
(* remainder of A, whatever B.then(C) returns on x.  repeat(P).then(C)     *)
(* calls C on the remainder of repeat(P), on which P fails, and fails      *)
(* with the error of C when C fails there; repeat(lit(a)).then(lit(a))     *)
(* fails on every input.                                                   *)
C20_Committed ==
  /\ (Called("ChainedParser") /\ parser.first.k = "OrParser") =>
       LET ra == Sub(parser.first.first, data)
       IN  ra.tag = "Ok" =>
             LET rc == Sub(parser.second, ra.rest)
             IN  /\ Returned(result) =
                      Returned(Sub(then(parser.first.first, parser.second),
                                   data))
                 /\ rc.tag = "Err" =>
                      result.tag = "Err" /\ result.err = rc.err
  /\ (Called("ChainedParser") /\ parser.first.k = "RepeatParser") =>
       LET rr == Sub(parser.first, data)
       IN  /\ rr.tag = "Ok" =>
                LET rc == Sub(parser.second, rr.rest)
                IN  /\ Sub(parser.first.parser, rr.rest).tag = "Err"
                    /\ rc.tag = "Err" =>
                         result.tag = "Err" /\ result.err = rc.err
           /\ (/\ parser.first.parser.k = "LiteralParser"
               /\ parser.second.k = "LiteralParser"
               /\ parser.second.literal = parser.first.parser.literal) =>
                result.tag = "Err"

(* A succeeds and C fails on the remainder of A, while B followed by C     *)
(* succeeds on the input.                                                  *)
C20_Witness ==
  /\ Called("ChainedParser")
  /\ parser.first.k = "OrParser"
  /\ Sub(parser.first.first, data).tag = "Ok"
  /\ result.tag = "Err"
  /\ Sub(then(parser.first.second, parser.second), data).tag = "Ok"

(* repeat(lit(0)).then(lit(0)) has failed on two zeros, on which one zero  *)
(* followed by lit(0) is a success.                                        *)
C20_WitnessRepeat ==
  /\ Called("ChainedParser")
  /\ parser.first.k = "RepeatParser"
  /\ parser.first.parser.k = "LiteralParser"
  /\ parser.second.k = "LiteralParser"
  /\ parser.second.literal = parser.first.parser.literal
  /\ SliceLen(data) >= 2
  /\ data.buf[1] = parser.second.literal
  /\ data.buf[2] = parser.second.literal
  /\ result.tag = "Err"

====
